---- MODULE Spec2Model ----
(***************************************************************************)
(* Outlook Mail facade (tools/*.py) and its request server (server.py).    *)
(*                                                                         *)
(* Every facade operation is an operator named as in the source.  It takes *)
(* the value get_onedrive_client() returned, the call's arguments and the  *)
(* outcome of the HTTP request it issues, and yields the call's outcome:   *)
(* whether an exception left the function, the value returned and the      *)
(* requests issued.  The chunked upload is a process of several steps.     *)
(***************************************************************************)
EXTENDS Integers, Sequences, FiniteSets, TLC

VARIABLES
    pc,         \* "idle" | "running" (upload loop) | "returned" | "raised"
    op,         \* name of the operation invoked last
    client,     \* TRUE iff get_onedrive_client() returned a client for it
    id,         \* the identifier passed as first path segment
    args,       \* the call's remaining arguments, after default binding
    file,       \* the local file the call names: [exists, size, avail, writable]
    reqs,       \* HTTP requests issued by the invocation, in order
    resps,      \* the outcome of each of them
    result,     \* the value returned
    file_size,  \* upload: os.path.getsize(file_path)
    file_pos,   \* upload: bytes sent so far
    wrote,      \* TRUE iff the invocation wrote save_path
    client_headers, \* client['headers']: the keys of the client's header dict
    mailbox,    \* remote: ids of the messages that exist
    draft,      \* remote: the draft created, and the arguments it was created with
    ctx,        \* server: auth_token_context as seen by each request's task
    hpc,        \* server: position of each request's handler
    hdr,        \* server: each request's x-auth-token header
    saved,      \* server: the Token returned by auth_token_context.set
    seen,       \* server: tokens observed by tool invocations of each request
    listed      \* server: the tool names list_tools returned last

vars == <<pc, op, client, id, args, file, reqs, resps, result, file_size,
          file_pos, wrote, client_headers, mailbox, draft, ctx, hpc, hdr, saved,
          seen, listed>>

facadeVars == <<pc, op, client, id, args, file, reqs, resps, result,
                file_size, file_pos, wrote, client_headers, mailbox, draft>>

serverVars == <<ctx, hpc, hdr, saved, seen, listed>>

(***************************************************************************)
(* Bounds.                                                                 *)
(***************************************************************************)
\* Largest number of optional arguments one call supplies.
MaxSupplied == 2
\* File sizes reach MaxChunks whole chunks, give or take MaxSlack bytes.
MaxChunks == 2
MaxSlack == 1
\* PUTs after which a looping upload is no longer followed.
MaxPuts == 4

(***************************************************************************)
(* Python values.  Every value carries its type, so that None, "", [] and  *)
(* False stay distinct.                                                    *)
(***************************************************************************)
None == [t |-> "none"]
Str(s) == [t |-> "str", v |-> s]
Bool(b) == [t |-> "bool", v |-> b]
Num(n) == [t |-> "int", v |-> n]
List(q) == [t |-> "list", v |-> q]
Dict(d) == [t |-> "dict", v |-> d]

\* Python truthiness, as tested by `if value:`.
Truthy(x) ==
    CASE x.t = "none" -> FALSE
      [] x.t = "str"  -> x.v /= ""
      [] x.t = "bool" -> x.v
      [] x.t = "int"  -> x.v /= 0
      [] x.t = "list" -> Len(x.v) > 0
      [] x.t = "dict" -> DOMAIN x.v /= {}

\* The values an argument of a given type is drawn from: first the empty
\* value of the type, then non-empty ones.
NumVariants(type) == IF type \in {"list", "rcpts"} THEN 3 ELSE 2

\* Category names.
Categories(i) == List(IF i = 1 THEN <<>> ELSE <<"X">>)


Variant(type, i) ==
    CASE type = "list" ->
             List(CASE i = 1 -> <<>>
                    [] i = 2 -> <<"a@x.com">>
                    [] OTHER -> <<"b@x.com", "a@x.com", "b@x.com">>)
      [] type = "rcpts" ->
             List(CASE i = 1 -> <<>>
                    [] i = 2 -> <<Dict([address |-> Str("a@x.com"), name |-> Str("A")])>>
                    [] OTHER -> <<Dict([address |-> Str("a@x.com")])>>)
      [] type = "cats" -> Categories(i)
      [] type = "str"  -> Str(IF i = 1 THEN "" ELSE "s")
      [] type = "bool" -> Bool(i /= 1)
      [] type = "int"  -> Num(IF i = 1 THEN 0 ELSE 5)
      [] type = "dict" ->
             Dict(IF i = 1 THEN <<>> ELSE [k \in {"flagStatus"} |-> Str("flagged")])

(***************************************************************************)
(* HTTP.                                                                   *)
(***************************************************************************)
Statuses == {200, 202, 204, 404}

\* A response body: not JSON (or empty), a JSON object, a JSON object with
\* an "error" member, a JSON object with an "uploadUrl" member.
Bodies == {"undecodable", "obj", "errobj", "session"}

\* The bodies drawn for the single-request operations.
PlainBodies == {"undecodable", "obj", "errobj"}

\* The outcome of one requests.<verb>(...) call: an exception of the transport,
\* or a response.
TransportError == [exc |-> TRUE, status |-> 0, body |-> "undecodable"]

Response(status, body) == [exc |-> FALSE, status |-> status, body |-> body]

Responses ==
    {TransportError} \cup {Response(st, b) : st \in Statuses, b \in PlainBodies}

\* The answers drawn when the arguments of the call vary as well.
BasicResponses ==
    {TransportError, Response(200, "obj"), Response(404, "errobj")}

NoRange == <<>>

Req(verb, path, rid, headers, params, hasjson, json, range) ==
    [verb |-> verb, path |-> path, id |-> rid, headers |-> headers,
     params |-> params, hasjson |-> hasjson, json |-> json, range |-> range]

\* client['headers']: the header dict of the client, which holds the bearer
\* token of the request context.
ClientHeaders == client_headers

Get(path, rid, params) ==
    Req("GET", path, rid, ClientHeaders, params, FALSE, <<>>, NoRange)
Delete(path, rid) ==
    Req("DELETE", path, rid, ClientHeaders, <<>>, FALSE, <<>>, NoRange)
Post(path, rid, json) ==
    Req("POST", path, rid, ClientHeaders, <<>>, TRUE, json, NoRange)
PostEmpty(path, rid) ==
    Req("POST", path, rid, ClientHeaders, <<>>, FALSE, <<>>, NoRange)
Patch(path, rid, json) ==
    Req("PATCH", path, rid, ClientHeaders, <<>>, TRUE, json, NoRange)

\* response.raise_for_status() raises for 4xx and 5xx.
RaisesForStatus(r) == r.status >= 400 /\ r.status < 600

\* response.json() raises when the body is not JSON.
JsonRaises(r) == r.body = "undecodable"

(***************************************************************************)
(* Returned values.                                                        *)
(***************************************************************************)
\* kind: "dict" | "str" | "none"; error: the dict has an "error" key.
Value(kind, error, val) == [kind |-> kind, error |-> error, val |-> val]

NoValue == Value("none", FALSE, "")
ErrorDict(msg) == Value("dict", TRUE, msg)
PlainDict(msg) == Value("dict", FALSE, msg)
PlainStr(msg) == Value("str", FALSE, msg)

\* The value of response.json() when the body decodes.
Json(r) == Value("dict", r.body = "errobj", r.body)

NoClientError == ErrorDict("Could not get Outlook client")

\* Outcome of a call: returned a value, or an exception left the function.
\* `headers` is client['headers'] as the call leaves it: no operation assigns
\* to it.
Returned(v, requests) ==
    [raised |-> FALSE, result |-> v, reqs |-> requests, wrote |-> FALSE,
     headers |-> ClientHeaders]
Raised(requests) ==
    [raised |-> TRUE, result |-> NoValue, reqs |-> requests, wrote |-> FALSE,
     headers |-> ClientHeaders]

(***************************************************************************)
(* The response handling idioms of the facade.                             *)
(***************************************************************************)
\* try: response = requests.x(...); return response.json()
\* except Exception: return {"error": ...}
JsonOrError(r, msg) ==
    IF r.exc \/ JsonRaises(r) THEN ErrorDict(msg) ELSE Json(r)

\* try: response = requests.x(...); response.raise_for_status();
\*      return response.json()
\* except Exception: return {"error": ...}
CheckedJsonOrError(r, msg) ==
    IF r.exc \/ RaisesForStatus(r) \/ JsonRaises(r) THEN ErrorDict(msg) ELSE Json(r)

\* try: response = requests.x(...); response.raise_for_status(); return ok
\* except Exception: return {"error": ...}
CheckedOrError(r, ok, msg) ==
    IF r.exc \/ RaisesForStatus(r) THEN ErrorDict(msg) ELSE ok

\* Mutant of StatusOrJson: the body is decoded before the status is looked at.
DecodedThenStatus(r, accepted, ok, msg) ==
    IF r.exc \/ JsonRaises(r) THEN ErrorDict(msg)
    ELSE IF r.status \in accepted THEN ok
    ELSE Json(r)

\* Mutant of StatusOrJson: every 2xx status is taken for success.
StatusAny2xxOrJson(r, accepted, ok, msg) ==
    IF r.exc THEN ErrorDict(msg)
    ELSE IF r.status >= 200 /\ r.status < 300 THEN ok
    ELSE IF JsonRaises(r) THEN ErrorDict("Unexpected response")
    ELSE Json(r)

\* try:
\*     response = requests.x(...)
\*     if response.status_code in accepted: return ok
\*     else:
\*         try: return response.json()
\*         except Exception: return {"error": "Unexpected response: ..."}
\* except Exception: return {"error": ...}
StatusOrJson(r, accepted, ok, msg) ==
    IF r.exc THEN ErrorDict(msg)
    ELSE IF r.status \in accepted THEN ok
    ELSE IF JsonRaises(r) THEN ErrorDict("Unexpected response")
    ELSE Json(r)

(***************************************************************************)
(* Payload and query construction.                                         *)
(***************************************************************************)
\* d[key] = value
With(d, key, value) ==
    [k \in DOMAIN d \cup {key} |-> IF k = key THEN value ELSE d[k]]

\* Mutant of CopyNotNone: every field is copied, None or not.
CopyAll(payload, fields, a) ==
    [k \in DOMAIN payload \cup DOMAIN fields |->
        IF k \in DOMAIN fields THEN a[fields[k]] ELSE payload[k]]

\* Mutant of CopyNotNone: a field is copied if it is true.
CopyNonEmpty(payload, fields, a) ==
    LET present == {k \in DOMAIN fields : Truthy(a[fields[k]])}
    IN  [k \in DOMAIN payload \cup present |->
            IF k \in present THEN a[fields[k]] ELSE payload[k]]

\* for key, value in fields.items():
\*     if value is not None: payload[key] = value
\* `fields` maps each payload key to the argument it is taken from.
CopyNotNone(payload, fields, a) ==
    LET present == {k \in DOMAIN fields : a[fields[k]].t /= "none"}
    IN  [k \in DOMAIN payload \cup present |->
            IF k \in present THEN a[fields[k]] ELSE payload[k]]

\* if value: d[key] = value      (query parameters, categories)
CopyTruthy(d, fields, a) ==
    LET present == {k \in DOMAIN fields : Truthy(a[fields[k]])}
    IN  [k \in DOMAIN d \cup present |->
            IF k \in present THEN a[fields[k]] ELSE d[k]]

\* Mutant of Recipients: an address is kept once only.
RecipientsOnce(emails) ==
    LET first(i) == \A j \in 1..(i - 1) : emails.v[j] /= emails.v[i]
        idx == SelectSeq([i \in 1..Len(emails.v) |-> i], first)
    IN  List([k \in 1..Len(idx) |->
                Dict([e \in {"emailAddress"} |->
                        Dict([j \in {"address"} |-> Str(emails.v[idx[k]])])])])

\* [{"emailAddress": {"address": email}} for email in emails]
Recipients(emails) ==
    List([i \in 1..Len(emails.v) |->
            Dict([k \in {"emailAddress"} |->
                    Dict([j \in {"address"} |-> Str(emails.v[i])])])])

\* for key, emails in recipient_fields.items():
\*     if emails: payload[key] = [{"emailAddress": ...} for email in emails]
AddRecipients(payload, fields, a) ==
    LET present == {k \in DOMAIN fields : Truthy(a[fields[k]])}
    IN  [k \in DOMAIN payload \cup present |->
            IF k \in present THEN Recipients(a[fields[k]]) ELSE payload[k]]

\* {"contentType": "HTML", "content": body_content}
HtmlBody(content) ==
    Dict([k \in {"contentType", "content"} |->
            IF k = "contentType" THEN Str("HTML") ELSE content])

\* recipient_fields of create_draft, create_draft_in_folder and update_draft
RecipientFields ==
    [toRecipients |-> "to_recipients", ccRecipients |-> "cc_recipients",
     bccRecipients |-> "bcc_recipients", replyTo |-> "reply_to"]

\* params['$filter'] = filter_query, ... of the list operations
QueryFields ==
    ("$filter" :> "filter_query") @@ ("$orderby" :> "orderby")
        @@ ("$select" :> "select")

(***************************************************************************)
(* tools/attachments.py                                                    *)
(***************************************************************************)
Sig_get_attachment == [req |-> <<>>, opt |-> [expand |-> "str"], def |-> <<>>]

outlookMail_get_attachment(c, message_id, a, r) ==
    IF ~c THEN Returned(NoClientError, <<>>)
    ELSE LET params == CopyTruthy(<<>>, ("$expand" :> "expand"), a)
             url == "/me/messages/{message_id}/attachments/{attachment_id}"
         IN  Returned(JsonOrError(r, "Could not get Outlook attachment"),
                      <<Get(url, message_id, params)>>)

\* f: the file at save_path
outlookMail_download_attachment(c, message_id, f, r) ==
    IF ~c THEN Returned(PlainStr("Could not get Outlook client"), <<>>)
    ELSE LET url == "/me/messages/{message_id}/attachments/{attachment_id}/$value"
             request == <<Get(url, message_id, <<>>)>>
         IN  IF r.exc \/ RaisesForStatus(r) \/ ~f.writable
             THEN Returned(PlainStr("Error"), request)
             ELSE [Returned(PlainStr("save_path"), request) EXCEPT !.wrote = TRUE]

outlookMail_delete_attachment(c, message_id, r) ==
    IF ~c THEN Returned(NoClientError, <<>>)
    ELSE LET url == "/me/messages/{message_id}/attachments/{attachment_id}"
         IN  Returned(StatusOrJson(r, {204}, PlainStr("Deleted"),
                                   "Could not delete attachment"),
                      <<Delete(url, message_id)>>)

\* Mutant of outlookMail_add_attachment: the file is opened and read before
\* the client is looked at.
AddAttachmentReadFirst(c, message_id, f, r) ==
    LET url == "/me/messages/{message_id}/attachments"
        payload == [k \in {"@odata.type", "name", "contentBytes"} |->
                       IF k = "@odata.type"
                       THEN Str("#microsoft.graph.fileAttachment")
                       ELSE Str("s")]
        msg == "Could not add attachment to Outlook draft message"
    IN  IF ~f.exists THEN Returned(ErrorDict(msg), <<>>)
        ELSE IF ~c THEN Returned(NoClientError, <<>>)
        ELSE Returned(CheckedJsonOrError(r, msg),
                      <<Post(url, message_id, payload)>>)

\* f: the file at file_path
outlookMail_add_attachment(c, message_id, f, r) ==
    IF ~c THEN Returned(NoClientError, <<>>)
    ELSE LET url == "/me/messages/{message_id}/attachments"
             payload == [k \in {"@odata.type", "name", "contentBytes"} |->
                            IF k = "@odata.type"
                            THEN Str("#microsoft.graph.fileAttachment")
                            ELSE Str("s")]
             msg == "Could not add attachment to Outlook draft message"
         IN  IF ~f.exists THEN Returned(ErrorDict(msg), <<>>)
             ELSE Returned(CheckedJsonOrError(r, msg),
                           <<Post(url, message_id, payload)>>)

outlookMail_list_attachments(c, message_id, r) ==
    IF ~c THEN Returned(NoClientError, <<>>)
    ELSE Returned(CheckedJsonOrError(r, "Could not list attachments"),
                  <<Get("/me/messages/{message_id}/attachments", message_id, <<>>)>>)

(***************************************************************************)
(* tools/focusedInbox.py                                                   *)
(***************************************************************************)
outlookMail_update_inference_override(c, override_id, r) ==
    IF ~c THEN Returned(NoClientError, <<>>)
    ELSE LET url == "/me/inferenceClassification/overrides/{override_id}"
             payload == [k \in {"classifyAs"} |-> Str("focused")]
         IN  Returned(CheckedJsonOrError(r, "Could not update inference classification override"),
                      <<Patch(url, override_id, payload)>>)

outlookMail_delete_inference_override(c, override_id, r) ==
    IF ~c THEN Returned(PlainStr("Could not get Outlook client"), <<>>)
    ELSE LET url == "/me/inferenceClassification/overrides/{override_id}"
             v == IF r.exc THEN PlainStr("Error")
                  ELSE IF r.status = 204 THEN PlainStr("Deleted")
                  ELSE IF JsonRaises(r) THEN PlainStr("Unexpected response")
                  ELSE Json(r)
         IN  Returned(v, <<Delete(url, override_id)>>)

outlookMail_list_inference_overrides(c, r) ==
    IF ~c THEN Returned(NoClientError, <<>>)
    ELSE Returned(CheckedJsonOrError(r, "Could not list overrides"),
                  <<Get("/me/inferenceClassification/overrides", "", <<>>)>>)

(***************************************************************************)
(* tools/mailFolder.py                                                     *)
(***************************************************************************)
Sig_list_folders ==
    [req |-> <<>>, opt |-> <<>>, def |-> [include_hidden |-> Bool(TRUE)]]

\* if include_hidden: params["includeHiddenFolders"] = "true"
HiddenParams(a) ==
    IF Truthy(a["include_hidden"])
    THEN ("includeHiddenFolders" :> Str("true")) ELSE <<>>

outlookMail_list_folders(c, a, r) ==
    IF ~c THEN Returned(NoClientError, <<>>)
    ELSE Returned(CheckedJsonOrError(r, "Could not get mail folders"),
                  <<Get("/me/mailFolders", "", HiddenParams(a))>>)

outlookMail_get_mail_folder(c, folder_id, r) ==
    IF ~c THEN Returned(NoClientError, <<>>)
    ELSE Returned(CheckedJsonOrError(r, "Could not get mail folder"),
                  <<Get("/me/mailFolders/{folder_id}", folder_id, <<>>)>>)

\* {"displayName": display_name, "isHidden": is_hidden}
FolderPayload ==
    [k \in {"displayName", "isHidden"} |->
        IF k = "displayName" THEN Str("s") ELSE Bool(FALSE)]

outlookMail_create_mail_folder(c, r) ==
    IF ~c THEN Returned(NoClientError, <<>>)
    ELSE Returned(CheckedJsonOrError(r, "Could not create mail folder"),
                  <<Post("/me/mailFolders", "", FolderPayload)>>)

Sig_list_child_folders ==
    [req |-> <<>>, opt |-> <<>>, def |-> [include_hidden |-> Bool(FALSE)]]

outlookMail_list_child_folders(c, folder_id, a, r) ==
    IF ~c THEN Returned(NoClientError, <<>>)
    ELSE Returned(CheckedJsonOrError(r, "Could not get child folders"),
                  <<Get("/me/mailFolders/{folder_id}/childFolders", folder_id,
                        HiddenParams(a))>>)

outlookMail_create_child_folder(c, parent_folder_id, r) ==
    IF ~c THEN Returned(NoClientError, <<>>)
    ELSE Returned(CheckedJsonOrError(r, "Could not create child folder"),
                  <<Post("/me/mailFolders/{parent_folder_id}/childFolders",
                         parent_folder_id, FolderPayload)>>)

\* mailFolder.py's definition of outlookMail_list_messages_from_folder
mailFolder_list_messages_from_folder(c, folder_id, r) ==
    IF ~c THEN Returned(NoClientError, <<>>)
    ELSE Returned(CheckedJsonOrError(r, "Failed to fetch messages"),
                  <<Get("/me/mailFolders/{folder_id}/messages", folder_id,
                        ("$top" :> Num(10)))>>)

outlookMail_update_folder_display_name(c, folder_id, r) ==
    IF ~c THEN Returned(NoClientError, <<>>)
    ELSE Returned(CheckedJsonOrError(r, "Failed to update folder"),
                  <<Patch("/me/mailFolders/{folder_id}", folder_id,
                          [k \in {"displayName"} |-> Str("s")])>>)

outlookMail_delete_folder(c, folder_id, r) ==
    IF ~c THEN Returned(NoClientError, <<>>)
    ELSE LET v == IF r.exc THEN ErrorDict("Could not delete folder")
                  ELSE IF r.status = 204 THEN PlainDict("message: deleted successfully")
                  ELSE ErrorDict("Unexpected response")
         IN  Returned(v, <<Delete("/me/mailFolders/{folder_id}", folder_id)>>)

outlookMail_copy_folder(c, folder_id, r) ==
    IF ~c THEN Returned(NoClientError, <<>>)
    ELSE Returned(CheckedJsonOrError(r, "Could not copy Outlook folder"),
                  <<Post("/me/mailFolders/{folder_id}/copy", folder_id,
                         [k \in {"destinationId"} |-> Str("s")])>>)

\* Mutant of outlookMail_get_folder_delta: the Prefer header is added to
\* client['headers'] itself, not to a copy.
GetFolderDeltaInPlace(c, r) ==
    IF ~c THEN Returned(NoClientError, <<>>)
    ELSE LET headers == ClientHeaders \cup {"Prefer"}
         IN  [Returned(CheckedJsonOrError(r, "Could not get folder delta"),
                       <<Req("GET", "/me/mailFolders/delta", "", headers, <<>>,
                             FALSE, <<>>, NoRange)>>)
                EXCEPT !.headers = headers]

\* headers = client['headers'].copy(); headers["Prefer"] = ...
outlookMail_get_folder_delta(c, r) ==
    IF ~c THEN Returned(NoClientError, <<>>)
    ELSE LET headers == ClientHeaders \cup {"Prefer"}
         IN  Returned(CheckedJsonOrError(r, "Could not get folder delta"),
                      <<Req("GET", "/me/mailFolders/delta", "", headers, <<>>,
                            FALSE, <<>>, NoRange)>>)

outlookMail_move_folder(c, folder_id, r) ==
    IF ~c THEN Returned(NoClientError, <<>>)
    ELSE Returned(CheckedJsonOrError(r, "Could not move Outlook mail folder"),
                  <<Post("/me/mailFolders/{folder_id}/move", folder_id,
                         [k \in {"destinationId"} |-> Str("s")])>>)

outlookMail_permanent_delete_folder(c, folder_id, r) ==
    IF ~c THEN Returned(NoClientError, <<>>)
    ELSE Returned(CheckedOrError(r, PlainDict("success: True"), "str(e)"),
                  <<PostEmpty("/users/{user_id}/mailFolders/{folder_id}/permanentDelete",
                              folder_id)>>)

(***************************************************************************)
(* tools/mailSearchFolder.py                                               *)
(***************************************************************************)
outlookMail_create_mail_search_folder(c, parent_folder_id, r) ==
    IF ~c THEN Returned(NoClientError, <<>>)
    ELSE LET payload ==
                 [k \in {"@odata.type", "displayName", "includeNestedFolders",
                         "sourceFolderIds", "filterQuery"} |->
                     CASE k = "@odata.type" -> Str("microsoft.graph.mailSearchFolder")
                       [] k = "includeNestedFolders" -> Bool(TRUE)
                       [] k = "sourceFolderIds" -> List(<<"f1">>)
                       [] OTHER -> Str("s")]
         IN  Returned(CheckedJsonOrError(r, "Could not create search folder"),
                      <<Post("/me/mailFolders/{parent_folder_id}/childFolders",
                             parent_folder_id, payload)>>)

outlookMail_get_mail_search_folder(c, folder_id, r) ==
    IF ~c THEN Returned(NoClientError, <<>>)
    ELSE Returned(CheckedJsonOrError(r, "Could not get mail folder"),
                  <<Get("/me/mailFolders/{folder_id}", folder_id, <<>>)>>)

Sig_update_mail_search_folder ==
    [req |-> <<>>,
     opt |-> [displayName |-> "str", includeNestedFolders |-> "bool",
              sourceFolderIds |-> "list", filterQuery |-> "str"],
     def |-> <<>>]

outlookMail_update_mail_search_folder(c, folder_id, a, r) ==
    IF ~c THEN Returned(NoClientError, <<>>)
    ELSE LET fields == [displayName |-> "displayName",
                        includeNestedFolders |-> "includeNestedFolders",
                        sourceFolderIds |-> "sourceFolderIds",
                        filterQuery |-> "filterQuery"]
             payload == CopyNotNone(<<>>, fields, a)
         IN  Returned(CheckedJsonOrError(r, "Could not update mail folder"),
                      <<Patch("/me/mailFolders/{folder_id}", folder_id, payload)>>)

outlookMail_delete_mail_search_folder(c, folder_id, r) ==
    IF ~c THEN Returned(NoClientError, <<>>)
    ELSE Returned(CheckedOrError(r, PlainDict("success: True"),
                                 "Could not delete mail folder"),
                  <<Delete("/me/mailFolders/{folder_id}", folder_id)>>)

outlookMail_permanent_delete_mail_search_folder(c, folder_id, r) ==
    IF ~c THEN Returned(NoClientError, <<>>)
    ELSE Returned(CheckedOrError(r, PlainDict("success: True"),
                                 "Could not permanently delete mail folder"),
                  <<PostEmpty("/me/mailFolders/{folder_id}/permanentDelete", folder_id)>>)

Sig_list ==
    [req |-> <<>>,
     opt |-> [filter_query |-> "str", orderby |-> "str", select |-> "str"],
     def |-> [top |-> Num(10)]]

\* params = {'$top': top}; if filter_query: params['$filter'] = filter_query; ...
ListParams(a) == CopyTruthy(("$top" :> a["top"]), QueryFields, a)

outlookMail_get_messages_from_folder(c, folder_id, a, r) ==
    IF ~c THEN Returned(NoClientError, <<>>)
    ELSE Returned(CheckedJsonOrError(r, "Could not get messages"),
                  <<Get("/me/mailFolders/{folder_id}/messages", folder_id,
                        ListParams(a))>>)

(***************************************************************************)
(* tools/messageRule.py                                                    *)
(***************************************************************************)
outlookMail_list_inbox_rules(c, r) ==
    IF ~c THEN Returned(NoClientError, <<>>)
    ELSE Returned(CheckedJsonOrError(r, "Could not get inbox message rules"),
                  <<Get("/me/mailFolders/inbox/messageRules", "", <<>>)>>)

outlookMail_get_inbox_rule_by_id(c, rule_id, r) ==
    IF ~c THEN Returned(NoClientError, <<>>)
    ELSE Returned(CheckedJsonOrError(r, "Could not get inbox rule"),
                  <<Get("/me/mailFolders/inbox/messageRules/{rule_id}", rule_id, <<>>)>>)

Sig_message_rule ==
    [req |-> <<>>,
     opt |-> [displayName |-> "str", sequence |-> "int", isEnabled |-> "bool",
              conditions |-> "dict", actions |-> "dict", exceptions |-> "dict"],
     def |-> <<>>]

\* args = {"displayName": displayName, "sequence": sequence, ...}
RuleFields ==
    [displayName |-> "displayName", sequence |-> "sequence",
     isEnabled |-> "isEnabled", conditions |-> "conditions",
     actions |-> "actions", exceptions |-> "exceptions"]

outlookMail_create_message_rule(c, a, r) ==
    IF ~c THEN Returned(NoClientError, <<>>)
    ELSE Returned(CheckedJsonOrError(r, "Could not create Outlook message rule"),
                  <<Post("/me/mailFolders/inbox/messageRules", "",
                         CopyNotNone(<<>>, RuleFields, a))>>)

outlookMail_update_message_rule(c, rule_id, a, r) ==
    IF ~c THEN Returned(NoClientError, <<>>)
    ELSE Returned(CheckedJsonOrError(r, "Could not update Outlook message rule"),
                  <<Patch("/me/mailFolders/inbox/messageRules/{rule_id}", rule_id,
                          CopyNotNone(<<>>, RuleFields, a))>>)

outlookMail_delete_message_rule(c, rule_id, r) ==
    IF ~c THEN Returned(NoClientError, <<>>)
    ELSE Returned(CheckedOrError(r, PlainDict("status: Deleted"),
                                 "Could not delete Outlook message rule"),
                  <<Delete("/me/mailFolders/inbox/messageRules/{rule_id}", rule_id)>>)

(***************************************************************************)
(* tools/messages.py                                                       *)
(***************************************************************************)
outlookMail_list_messages(c, a, r) ==
    IF ~c THEN Returned(NoClientError, <<>>)
    ELSE Returned(JsonOrError(r, "Could not get Outlook messages"),
                  <<Get("/me/messages", "", ListParams(a))>>)

\* Mutant of outlookMail_list_messages_from_folder: the name is bound to
\* mailFolder.py's definition, which takes folder_id and top only; any other
\* keyword argument is a TypeError.
ListMessagesFromFolderShadowed(c, folder_id, a, r) ==
    IF \E n \in {"filter_query", "orderby", "select"} : a[n].t /= "none"
    THEN Raised(<<>>)
    ELSE mailFolder_list_messages_from_folder(c, folder_id, r)

\* messages.py's definition, the one tools/__init__.py binds last
outlookMail_list_messages_from_folder(c, folder_id, a, r) ==
    IF ~c THEN Returned(NoClientError, <<>>)
    ELSE Returned(JsonOrError(r, "Could not get Outlook messages"),
                  <<Get("/me/mailFolders/{folder_id}/messages", folder_id,
                        ListParams(a))>>)

Sig_create_draft ==
    [req |-> [subject |-> "str", body_content |-> "str", to_recipients |-> "list"],
     opt |-> [cc_recipients |-> "list", bcc_recipients |-> "list",
              reply_to |-> "list", categories |-> "cats"],
     def |-> [importance |-> Str("Normal")]]

\* payload = {"subject": ..., "importance": ..., "body": {...}}
\* if categories: payload["categories"] = categories
\* for key, emails in recipient_fields.items(): if emails: ...
DraftPayload(a) ==
    LET base == [k \in {"subject", "importance", "body"} |->
                    CASE k = "subject" -> a["subject"]
                      [] k = "importance" -> a["importance"]
                      [] OTHER -> HtmlBody(a["body_content"])]
        cats == CopyTruthy(base, [categories |-> "categories"], a)
    IN  AddRecipients(cats, RecipientFields, a)

outlookMail_create_draft(c, a, r) ==
    IF ~c THEN Returned(NoClientError, <<>>)
    ELSE Returned(CheckedJsonOrError(r, "Could not create Outlook draft message"),
                  <<Post("/me/messages", "", DraftPayload(a))>>)

outlookMail_create_draft_in_folder(c, folder_id, a, r) ==
    IF ~c THEN Returned(NoClientError, <<>>)
    ELSE Returned(CheckedJsonOrError(r, "Could not create Outlook draft message"),
                  <<Post("/me/mailFolders/{folder_id}/messages", folder_id,
                         DraftPayload(a))>>)

Sig_update_draft ==
    [req |-> <<>>,
     opt |-> [subject |-> "str", body_content |-> "str",
              to_recipients |-> "list", cc_recipients |-> "list",
              bcc_recipients |-> "list", reply_to |-> "list",
              importance |-> "str", internet_message_id |-> "str",
              is_delivery_receipt_requested |-> "bool", is_read |-> "bool",
              is_read_receipt_requested |-> "bool", categories |-> "cats",
              inference_classification |-> "str", flag |-> "dict",
              from_sender |-> "dict", sender |-> "dict"],
     def |-> <<>>]

\* fields = {"subject": subject, "importance": importance, ...}
UpdateDraftFields ==
    [subject |-> "subject", importance |-> "importance",
     internetMessageId |-> "internet_message_id",
     isDeliveryReceiptRequested |-> "is_delivery_receipt_requested",
     isRead |-> "is_read",
     isReadReceiptRequested |-> "is_read_receipt_requested",
     categories |-> "categories",
     inferenceClassification |-> "inference_classification",
     flag |-> "flag", from |-> "from_sender", sender |-> "sender"]

\* Mutant of UpdateDraftPayload: the plain fields are tested for truth.
UpdateDraftPayloadTruthy(a) ==
    LET plain == CopyTruthy(<<>>, UpdateDraftFields, a)
        body == IF Truthy(a["body_content"])
                THEN With(plain, "body", HtmlBody(a["body_content"]))
                ELSE plain
    IN  AddRecipients(body, RecipientFields, a)

UpdateDraftPayload(a) ==
    LET plain == CopyNotNone(<<>>, UpdateDraftFields, a)
        body == IF Truthy(a["body_content"])
                THEN With(plain, "body", HtmlBody(a["body_content"]))
                ELSE plain
    IN  AddRecipients(body, RecipientFields, a)

outlookMail_update_draft(c, message_id, a, r) ==
    IF ~c THEN Returned(NoClientError, <<>>)
    ELSE Returned(CheckedJsonOrError(r, "Could not update Outlook draft message"),
                  <<Patch("/me/messages/{message_id}", message_id,
                          UpdateDraftPayload(a))>>)

\* Mutant of outlookMail_delete_draft: a message deleted before is not
\* deleted again.
DeleteDraftOnce(c, message_id, r) ==
    IF ~c THEN Returned(NoClientError, <<>>)
    ELSE IF message_id \notin mailbox
    THEN Returned(PlainDict("Success: Deleted"), <<>>)
    ELSE Returned(StatusOrJson(r, {204}, PlainDict("Success: Deleted"),
                               "Could not delete Outlook draft message"),
                  <<Delete("/me/messages/{message_id}", message_id)>>)

outlookMail_delete_draft(c, message_id, r) ==
    IF ~c THEN Returned(NoClientError, <<>>)
    ELSE Returned(StatusOrJson(r, {204}, PlainDict("Success: Deleted"),
                               "Could not delete Outlook draft message"),
                  <<Delete("/me/messages/{message_id}", message_id)>>)

\* requests.delete(url, headers=client['headers'], json=payload)
outlookMail_copy_message(c, message_id, r) ==
    IF ~c THEN Returned(NoClientError, <<>>)
    ELSE LET payload == [k \in {"destinationId"} |-> Str("s")]
         IN  Returned(StatusOrJson(r, {204}, PlainDict("success: Copied"),
                                   "Could not copy Outlook draft message"),
                      <<Req("DELETE", "/me/messages/{message_id}", message_id,
                            ClientHeaders, <<>>, TRUE, payload, NoRange)>>)

Sig_create_forward_draft ==
    [req |-> [comment |-> "str", to_recipients |-> "list"],
     opt |-> <<>>, def |-> <<>>]

\* {"comment": comment, "toRecipients": recipients}
ForwardPayload(a) ==
    [k \in {"comment", "toRecipients"} |->
        IF k = "comment" THEN a["comment"] ELSE Recipients(a["to_recipients"])]

outlookMail_create_forward_draft(c, message_id, a, r) ==
    IF ~c THEN Returned(NoClientError, <<>>)
    ELSE Returned(JsonOrError(r, "Could not create Outlook forward draft message"),
                  <<Post("/me/messages/{message_id}/createForward", message_id,
                         ForwardPayload(a))>>)

\* {"comment": comment}
CommentPayload == [k \in {"comment"} |-> Str("s")]

outlookMail_create_reply_draft(c, message_id, r) ==
    IF ~c THEN Returned(NoClientError, <<>>)
    ELSE Returned(JsonOrError(r, "Could not create Outlook reply draft message"),
                  <<Post("/me/messages/{message_id}/createReply", message_id,
                         CommentPayload)>>)

outlookMail_create_reply_all_draft(c, message_id, r) ==
    IF ~c THEN Returned(NoClientError, <<>>)
    ELSE Returned(JsonOrError(r, "Could not create reply-all draft"),
                  <<Post("/me/messages/{message_id}/createReplyAll", message_id,
                         CommentPayload)>>)

Sig_forward_message ==
    [req |-> [to_recipients |-> "list"], opt |-> <<>>,
     def |-> [comment |-> Str("")]]

\* Mutant of outlookMail_forward_message: a request that failed is sent once
\* more.
ForwardMessageRetry(c, message_id, a, r) ==
    IF ~c THEN Returned(NoClientError, <<>>)
    ELSE LET msg == "Could not forward Outlook message"
             request == Post("/me/messages/{message_id}/forward", message_id,
                             ForwardPayload(a))
             v == IF r.exc THEN ErrorDict(msg)
                  ELSE IF r.status \in {202, 200} THEN PlainDict("success: True")
                  ELSE IF JsonRaises(r) THEN ErrorDict(msg)
                  ELSE Json(r)
         IN  Returned(v, IF r.exc \/ r.status \notin {202, 200}
                         THEN <<request, request>> ELSE <<request>>)

\* the else branch calls response.json() inside the outer try only
outlookMail_forward_message(c, message_id, a, r) ==
    IF ~c THEN Returned(NoClientError, <<>>)
    ELSE LET msg == "Could not forward Outlook message"
             v == IF r.exc THEN ErrorDict(msg)
                  ELSE IF r.status \in {202, 200} THEN PlainDict("success: True")
                  ELSE IF JsonRaises(r) THEN ErrorDict(msg)
                  ELSE Json(r)
         IN  Returned(v, <<Post("/me/messages/{message_id}/forward", message_id,
                                ForwardPayload(a))>>)

outlookMail_move_message(c, message_id, r) ==
    IF ~c THEN Returned(NoClientError, <<>>)
    ELSE Returned(JsonOrError(r, "Could not move Outlook mail message"),
                  <<Post("/me/messages/{message_id}/move", message_id,
                         [k \in {"destinationId"} |-> Str("s")])>>)

Sig_send_reply_custom ==
    [req |-> [comment |-> "str", to_recipients |-> "rcpts"],
     opt |-> <<>>, def |-> <<>>]

\* r["address"], r["name"] raise KeyError for a recipient without that key;
\* the list is built before the try block.
outlookMail_send_reply_custom(c, message_id, a, r) ==
    IF ~c THEN Returned(NoClientError, <<>>)
    ELSE LET rs == a["to_recipients"].v
             recipients ==
                 List([i \in 1..Len(rs) |->
                         Dict([k \in {"emailAddress"} |->
                                 Dict([j \in {"address", "name"} |-> rs[i].v[j]])])])
             payload == [k \in {"message", "comment"} |->
                            IF k = "comment" THEN a["comment"]
                            ELSE Dict([j \in {"toRecipients"} |-> recipients])]
         IN  IF \E i \in 1..Len(rs) : ~({"address", "name"} \subseteq DOMAIN rs[i].v)
             THEN Raised(<<>>)
             ELSE Returned(StatusOrJson(r, {200, 202}, PlainStr("Sent"),
                                        "Could not reply (custom) to Outlook mail message"),
                           <<Post("/me/messages/{message_id}/reply", message_id,
                                  payload)>>)

outlookMail_reply_all(c, message_id, r) ==
    IF ~c THEN Returned(NoClientError, <<>>)
    ELSE Returned(JsonOrError(r, "Could not reply all to Outlook message"),
                  <<Post("/me/messages/{message_id}/replyAll", message_id,
                         CommentPayload)>>)

outlookMail_send_draft(c, message_id, r) ==
    IF ~c THEN Returned(NoClientError, <<>>)
    ELSE Returned(StatusOrJson(r, {202, 200, 204},
                               PlainDict("success: Draft sent successfully"),
                               "Could not send Outlook draft message"),
                  <<PostEmpty("/me/messages/{message_id}/send", message_id)>>)

outlookMail_permanent_delete(c, message_id, r) ==
    IF ~c THEN Returned(NoClientError, <<>>)
    ELSE Returned(StatusOrJson(r, {200, 202, 204},
                               PlainDict("success: Message permanently deleted"),
                               "Could not permanently delete message"),
                  <<PostEmpty("/users/{user_id}/messages/{message_id}/permanentDelete",
                              message_id)>>)

(***************************************************************************)
(* The operations the tools package exports, by the shape of their call.   *)
(***************************************************************************)
\* (client, response)
PlainOps ==
    {"outlookMail_list_inference_overrides", "outlookMail_create_mail_folder",
     "outlookMail_get_folder_delta", "outlookMail_list_inbox_rules"}

\* (client, id, response)
IdOps ==
    {"outlookMail_delete_attachment", "outlookMail_list_attachments",
     "outlookMail_update_inference_override",
     "outlookMail_delete_inference_override", "outlookMail_get_mail_folder",
     "outlookMail_create_child_folder",
     "outlookMail_update_folder_display_name", "outlookMail_delete_folder",
     "outlookMail_copy_folder", "outlookMail_move_folder",
     "outlookMail_permanent_delete_folder",
     "outlookMail_create_mail_search_folder",
     "outlookMail_get_mail_search_folder",
     "outlookMail_delete_mail_search_folder",
     "outlookMail_permanent_delete_mail_search_folder",
     "outlookMail_get_inbox_rule_by_id", "outlookMail_delete_message_rule",
     "outlookMail_delete_draft", "outlookMail_copy_message",
     "outlookMail_create_reply_draft", "outlookMail_create_reply_all_draft",
     "outlookMail_move_message", "outlookMail_reply_all",
     "outlookMail_send_draft", "outlookMail_permanent_delete"}

\* (client, arguments, response) and (client, id, arguments, response)
ArgOps ==
    {"outlookMail_list_folders", "outlookMail_create_message_rule",
     "outlookMail_list_messages", "outlookMail_create_draft"}

IdArgOps ==
    {"outlookMail_get_attachment", "outlookMail_list_child_folders",
     "outlookMail_update_mail_search_folder",
     "outlookMail_get_messages_from_folder",
     "outlookMail_update_message_rule",
     "outlookMail_list_messages_from_folder",
     "outlookMail_create_draft_in_folder", "outlookMail_update_draft",
     "outlookMail_create_forward_draft", "outlookMail_forward_message",
     "outlookMail_send_reply_custom"}

\* (client, id, file, response)
FileOps == {"outlookMail_download_attachment", "outlookMail_add_attachment"}

UploadOp == "outlookMail_upload_large_attachment"

Operations == PlainOps \cup IdOps \cup ArgOps \cup IdArgOps \cup FileOps \cup {UploadOp}

\* The signature of an operation that takes arguments beside its id.
Sig(o) ==
    CASE o = "outlookMail_get_attachment" -> Sig_get_attachment
      [] o = "outlookMail_list_folders" -> Sig_list_folders
      [] o = "outlookMail_list_child_folders" -> Sig_list_child_folders
      [] o = "outlookMail_update_mail_search_folder" -> Sig_update_mail_search_folder
      [] o \in {"outlookMail_get_messages_from_folder", "outlookMail_list_messages",
                "outlookMail_list_messages_from_folder"} -> Sig_list
      [] o \in {"outlookMail_create_message_rule",
                "outlookMail_update_message_rule"} -> Sig_message_rule
      [] o \in {"outlookMail_create_draft",
                "outlookMail_create_draft_in_folder"} -> Sig_create_draft
      [] o = "outlookMail_update_draft" -> Sig_update_draft
      [] o = "outlookMail_create_forward_draft" -> Sig_create_forward_draft
      [] o = "outlookMail_forward_message" -> Sig_forward_message
      [] o = "outlookMail_send_reply_custom" -> Sig_send_reply_custom

\* The name each operation is bound to by `from tools import ...`.
Invoke(o, c, rid, a, f, r) ==
    CASE o = "outlookMail_add_attachment" -> outlookMail_add_attachment(c, rid, f, r)
      [] o = "outlookMail_list_attachments" -> outlookMail_list_attachments(c, rid, r)
      [] o = "outlookMail_get_attachment" -> outlookMail_get_attachment(c, rid, a, r)
      [] o = "outlookMail_download_attachment" -> outlookMail_download_attachment(c, rid, f, r)
      [] o = "outlookMail_delete_attachment" -> outlookMail_delete_attachment(c, rid, r)
      [] o = "outlookMail_delete_inference_override" -> outlookMail_delete_inference_override(c, rid, r)
      [] o = "outlookMail_update_inference_override" -> outlookMail_update_inference_override(c, rid, r)
      [] o = "outlookMail_list_inference_overrides" -> outlookMail_list_inference_overrides(c, r)
      [] o = "outlookMail_delete_folder" -> outlookMail_delete_folder(c, rid, r)
      [] o = "outlookMail_create_mail_folder" -> outlookMail_create_mail_folder(c, r)
      [] o = "outlookMail_list_folders" -> outlookMail_list_folders(c, a, r)
      [] o = "outlookMail_permanent_delete_folder" -> outlookMail_permanent_delete_folder(c, rid, r)
      [] o = "outlookMail_copy_folder" -> outlookMail_copy_folder(c, rid, r)
      [] o = "outlookMail_move_folder" -> outlookMail_move_folder(c, rid, r)
      [] o = "outlookMail_get_mail_folder" -> outlookMail_get_mail_folder(c, rid, r)
      [] o = "outlookMail_update_folder_display_name" -> outlookMail_update_folder_display_name(c, rid, r)
      [] o = "outlookMail_get_folder_delta" -> outlookMail_get_folder_delta(c, r)
      [] o = "outlookMail_create_child_folder" -> outlookMail_create_child_folder(c, rid, r)
      [] o = "outlookMail_list_child_folders" -> outlookMail_list_child_folders(c, rid, a, r)
      [] o = "outlookMail_delete_mail_search_folder" -> outlookMail_delete_mail_search_folder(c, rid, r)
      [] o = "outlookMail_create_mail_search_folder" -> outlookMail_create_mail_search_folder(c, rid, r)
      [] o = "outlookMail_update_mail_search_folder" -> outlookMail_update_mail_search_folder(c, rid, a, r)
      [] o = "outlookMail_get_mail_search_folder" -> outlookMail_get_mail_search_folder(c, rid, r)
      [] o = "outlookMail_permanent_delete_mail_search_folder" -> outlookMail_permanent_delete_mail_search_folder(c, rid, r)
      [] o = "outlookMail_get_messages_from_folder" -> outlookMail_get_messages_from_folder(c, rid, a, r)
      [] o = "outlookMail_list_inbox_rules" -> outlookMail_list_inbox_rules(c, r)
      [] o = "outlookMail_create_message_rule" -> outlookMail_create_message_rule(c, a, r)
      [] o = "outlookMail_delete_message_rule" -> outlookMail_delete_message_rule(c, rid, r)
      [] o = "outlookMail_update_message_rule" -> outlookMail_update_message_rule(c, rid, a, r)
      [] o = "outlookMail_get_inbox_rule_by_id" -> outlookMail_get_inbox_rule_by_id(c, rid, r)
      [] o = "outlookMail_copy_message" -> outlookMail_copy_message(c, rid, r)
      [] o = "outlookMail_reply_all" -> outlookMail_reply_all(c, rid, r)
      [] o = "outlookMail_send_draft" -> outlookMail_send_draft(c, rid, r)
      [] o = "outlookMail_send_reply_custom" -> outlookMail_send_reply_custom(c, rid, a, r)
      [] o = "outlookMail_move_message" -> outlookMail_move_message(c, rid, r)
      [] o = "outlookMail_permanent_delete" -> outlookMail_permanent_delete(c, rid, r)
      [] o = "outlookMail_create_draft_in_folder" -> outlookMail_create_draft_in_folder(c, rid, a, r)
      [] o = "outlookMail_forward_message" -> outlookMail_forward_message(c, rid, a, r)
      [] o = "outlookMail_create_reply_all_draft" -> outlookMail_create_reply_all_draft(c, rid, r)
      [] o = "outlookMail_list_messages" -> outlookMail_list_messages(c, a, r)
      [] o = "outlookMail_create_draft" -> outlookMail_create_draft(c, a, r)
      [] o = "outlookMail_list_messages_from_folder" -> outlookMail_list_messages_from_folder(c, rid, a, r)
      [] o = "outlookMail_create_reply_draft" -> outlookMail_create_reply_draft(c, rid, r)
      [] o = "outlookMail_delete_draft" -> outlookMail_delete_draft(c, rid, r)
      [] o = "outlookMail_update_draft" -> outlookMail_update_draft(c, rid, a, r)
      [] o = "outlookMail_create_forward_draft" -> outlookMail_create_forward_draft(c, rid, a, r)

(***************************************************************************)
(* Inputs.                                                                 *)
(***************************************************************************)
\* Message ids; folders, rules and overrides have an id of their own.
Ids == {"m1", "m2"}

MessageOps ==
    {"outlookMail_delete_attachment", "outlookMail_list_attachments",
     "outlookMail_delete_draft", "outlookMail_copy_message",
     "outlookMail_create_reply_draft", "outlookMail_create_reply_all_draft",
     "outlookMail_move_message", "outlookMail_reply_all",
     "outlookMail_send_draft", "outlookMail_permanent_delete",
     "outlookMail_get_attachment", "outlookMail_update_draft",
     "outlookMail_create_forward_draft", "outlookMail_forward_message",
     "outlookMail_send_reply_custom", "outlookMail_download_attachment",
     "outlookMail_add_attachment", "outlookMail_upload_large_attachment"}

IdsOf(o) == IF o \in MessageOps THEN Ids ELSE {"x1"}

RECURSIVE SubsetsUpTo(_, _)
SubsetsUpTo(S, k) ==
    IF k = 0 THEN {{}}
    ELSE LET smaller == SubsetsUpTo(S, k - 1)
         IN  smaller \cup {T \cup {x} : T \in smaller, x \in S}

Choices(types) ==
    {v \in [DOMAIN types -> 1..3] : \A n \in DOMAIN types : v[n] <= NumVariants(types[n])}

\* The argument bindings of a call: every required argument supplied, at
\* most MaxSupplied of the others supplied, the rest at their defaults.
ArgSets(sig) ==
    LET others == DOMAIN sig.opt \cup DOMAIN sig.def
        typeOf(n) == IF n \in DOMAIN sig.opt THEN sig.opt[n] ELSE sig.def[n].t
        default(n) == IF n \in DOMAIN sig.opt THEN None ELSE sig.def[n]
        bind(rv, S, sv) ==
            [n \in DOMAIN sig.req \cup others |->
                IF n \in DOMAIN sig.req THEN Variant(sig.req[n], rv[n])
                ELSE IF n \in S THEN Variant(typeOf(n), sv[n])
                ELSE default(n)]
    IN  UNION {{bind(rv, S, sv) :
                    rv \in Choices(sig.req),
                    sv \in Choices([n \in S |-> typeOf(n)])} :
               S \in SubsetsUpTo(others, MaxSupplied)}

\* The binding with every required argument non-empty and nothing else
\* supplied.
BaseArgs(sig) ==
    [n \in DOMAIN sig.req \cup DOMAIN sig.opt \cup DOMAIN sig.def |->
        IF n \in DOMAIN sig.req THEN Variant(sig.req[n], 2)
        ELSE IF n \in DOMAIN sig.opt THEN None ELSE sig.def[n]]

\* The arguments shape the request and the answer shapes the result: beyond
\* the basic answers, the answer varies with the base arguments only.
ArgCalls(o, c) ==
    IF c
    THEN {<<a, r>> \in ArgSets(Sig(o)) \X Responses :
            a = BaseArgs(Sig(o)) \/ r \in BasicResponses}
    ELSE ArgSets(Sig(o)) \X {TransportError}

\* Without a client no request is sent, and no answer is drawn.
ResponsesFor(c) == IF c THEN Responses ELSE {TransportError}

\* A 3xx answer that requests hands to the caller (304, or a redirect it does
\* not follow): raise_for_status lets it pass.
RedirectResponses == {Response(304, b) : b \in PlainBodies}

\* The answers drawn for the operations on a local file.
FileResponsesFor(c) ==
    IF c THEN Responses \cup RedirectResponses ELSE {TransportError}

NoArgs == <<>>

NoFile == [exists |-> FALSE, writable |-> FALSE, size |-> 0, avail |-> 0]

\* The file a download writes or an attachment is read from.
Files == [exists : BOOLEAN, writable : BOOLEAN, size : {1}, avail : {1}]

(***************************************************************************)
(* The remote mailbox: DELETE /me/messages/{id} answered 204 removes the   *)
(* message, as delete_draft reads that answer.                             *)
(***************************************************************************)
Remote(box, requests, r) ==
    IF /\ Len(requests) = 1
       /\ requests[1].verb = "DELETE"
       /\ requests[1].path = "/me/messages/{message_id}"
       /\ ~r.exc /\ r.status = 204
    THEN box \ {requests[1].id}
    ELSE box

(***************************************************************************)
(* State machine of the facade: one invocation at a time.                  *)
(***************************************************************************)
NoDraft == [id |-> "", args |-> NoArgs]

InitFacade ==
    /\ pc = "idle"
    /\ op = ""
    /\ client = FALSE
    /\ id = ""
    /\ args = NoArgs
    /\ file = NoFile
    /\ reqs = <<>>
    /\ resps = <<>>
    /\ result = NoValue
    /\ file_size = 0
    /\ file_pos = 0
    /\ wrote = FALSE
    /\ client_headers = {"Authorization"}
    /\ mailbox = Ids
    /\ draft = NoDraft

\* The invocation of a single-request operation, from call to return: what
\* the caller and the wire see of it.
Outcome(o, c, rid, a, f, r) ==
    LET out == Invoke(o, c, rid, a, f, r)
    IN  /\ pc = "idle"
        /\ pc' = IF out.raised THEN "raised" ELSE "returned"
        /\ op' = o
        /\ client' = c
        /\ id' = rid
        /\ args' = a
        /\ file' = f
        /\ reqs' = out.reqs
        /\ resps' = IF Len(out.reqs) = 0 THEN <<>> ELSE <<r>>
        /\ result' = out.result
        /\ wrote' = out.wrote
        /\ client_headers' = out.headers
        /\ UNCHANGED <<file_size, file_pos>>
        /\ UNCHANGED serverVars

\* The invocation, with its effect on the messages of the mailbox.
Complete(o, c, rid, a, f, r) ==
    /\ Outcome(o, c, rid, a, f, r)
    /\ mailbox' = Remote(mailbox, Invoke(o, c, rid, a, f, r).reqs, r)
    /\ UNCHANGED draft

CallPlain ==
    /\ pc = "idle"
    /\ \E o \in PlainOps, c \in BOOLEAN :
           \E r \in ResponsesFor(c) : Complete(o, c, "", NoArgs, NoFile, r)

CallId ==
    /\ pc = "idle"
    /\ \E o \in IdOps, c \in BOOLEAN :
           \E rid \in IdsOf(o), r \in ResponsesFor(c) :
               Complete(o, c, rid, NoArgs, NoFile, r)

\* No operation reads the mailbox: the arguments and the files vary while
\* every message is there, and the base calls are made in every mailbox.
Varied == mailbox = Ids

CallArgs ==
    /\ pc = "idle"
    /\ \E o \in ArgOps, c \in BOOLEAN :
           \E x \in ArgCalls(o, c) :
               /\ Varied \/ x[1] = BaseArgs(Sig(o))
               /\ Complete(o, c, "", x[1], NoFile, x[2])

\* The id is a path segment only: beyond the base arguments it is the
\* first one.
FirstId(o) == IF o \in MessageOps THEN "m1" ELSE "x1"

CallIdArgs ==
    /\ pc = "idle"
    /\ \E o \in IdArgOps, c \in BOOLEAN :
           \E rid \in IdsOf(o), x \in ArgCalls(o, c) :
               /\ (Varied /\ rid = FirstId(o)) \/ x[1] = BaseArgs(Sig(o))
               /\ Complete(o, c, rid, x[1], NoFile, x[2])

CallFile ==
    /\ pc = "idle"
    /\ \E o \in FileOps, c \in BOOLEAN, rid \in Ids, f \in Files :
           \E r \in FileResponsesFor(c) : Complete(o, c, rid, NoArgs, f, r)

\* The caller takes the outcome; the facade keeps nothing of the call.
Return ==
    /\ pc \in {"returned", "raised"}
    /\ pc' = "idle"
    /\ op' = ""
    /\ client' = FALSE
    /\ id' = ""
    /\ args' = NoArgs
    /\ file' = NoFile
    /\ reqs' = <<>>
    /\ resps' = <<>>
    /\ result' = NoValue
    /\ file_size' = 0
    /\ file_pos' = 0
    /\ wrote' = FALSE
    /\ UNCHANGED <<client_headers, mailbox, draft>>
    /\ UNCHANGED serverVars

(***************************************************************************)
(* outlookMail_upload_large_attachment (tools/attachments.py): a session   *)
(* POST, then one PUT per loop iteration.                                  *)
(***************************************************************************)
chunk_size == 3276800

Min(x, y) == IF x <= y THEN x ELSE y

\* Sizes around the multiples of the chunk size.
FileSizes ==
    {n \in {k * chunk_size + d : k \in 0..MaxChunks, d \in (0 - MaxSlack)..MaxSlack} :
        n >= 0}

\* The file at file_path: `size` is what os.path.getsize reports, `avail`
\* the number of bytes the reads of the loop can get.
UploadFiles ==
    [exists : BOOLEAN, writable : {TRUE}, size : FileSizes, avail : FileSizes]

\* Answers to the session request and to a PUT.
SessionResponses ==
    {TransportError}
        \cup {Response(st, b) : st \in {200, 404}, b \in {"undecodable", "obj", "session"}}

PutResponses ==
    {TransportError} \cup {Response(st, b) : st \in {200, 404}, b \in {"undecodable", "obj"}}

\* {"AttachmentItem": {"attachmentType": "file", "name": ..., "size": ..., "isInline": ...}}
SessionPayload(size) ==
    [k \in {"AttachmentItem"} |->
        Dict([j \in {"attachmentType", "name", "size", "isInline"} |->
                CASE j = "attachmentType" -> Str("file")
                  [] j = "name" -> Str("s")
                  [] j = "size" -> Num(size)
                  [] OTHER -> Bool(FALSE)])]

\* Mutant of Put: the chunk is sent with the client's headers as well.
PutWithClientHeaders(rid, start, end, total, len) ==
    Req("PUT", "uploadUrl", rid,
        ClientHeaders \cup {"Content-Length", "Content-Range"}, <<>>,
        FALSE, <<>>, [start |-> start, end |-> end, total |-> total, len |-> len])

\* requests.put(upload_url, headers={"Content-Length", "Content-Range"}, data=chunk)
Put(rid, start, end, total, len) ==
    Req("PUT", "uploadUrl", rid, {"Content-Length", "Content-Range"}, <<>>,
        FALSE, <<>>, [start |-> start, end |-> end, total |-> total, len |-> len])

\* Mutant of ChunkLen: the chunk is taken to be a whole chunk always.
ChunkLenWhole(f, pos) == chunk_size

\* chunk = f.read(chunk_size): what is left of the file, at most a chunk
ChunkLen(f, pos) ==
    IF f.avail > pos THEN Min(chunk_size, f.avail - pos) ELSE 0

\* Mutant of PutFailed: the status of the answer is not looked at.
PutFailedTransportOnly(r) == r.exc

\* put_res = requests.put(...); put_res.raise_for_status()
PutFailed(r) == r.exc \/ RaisesForStatus(r)

\* Lines 197-232: client check, size, session request, open, loop entry.
UploadBegin(c, rid, f, r) ==
    LET post == Post("/me/messages/{message_id}/attachments/createUploadSession",
                     rid, SessionPayload(f.size))
        failed == r.exc \/ RaisesForStatus(r) \/ JsonRaises(r)
        nourl == r.body /= "session"
        \* no iteration: `return put_res.json()` finds put_res unbound
        empty == f.size = 0
        sent == c /\ f.exists
        done == ~c \/ ~f.exists \/ failed \/ nourl \/ empty
    IN  /\ pc = "idle"
        /\ op' = UploadOp
        /\ client' = c
        /\ id' = rid
        /\ args' = NoArgs
        /\ file' = f
        /\ pc' = IF c /\ ~f.exists THEN "raised"
                 ELSE IF done THEN "returned" ELSE "running"
        /\ reqs' = IF sent THEN <<post>> ELSE <<>>
        /\ resps' = IF sent THEN <<r>> ELSE <<>>
        /\ result' = IF ~c THEN NoClientError
                     ELSE IF ~f.exists THEN NoValue
                     ELSE IF failed THEN ErrorDict("Could not create upload session")
                     ELSE IF nourl THEN ErrorDict("Upload session URL not found")
                     ELSE IF empty THEN ErrorDict("Could not upload attachment")
                     ELSE NoValue
        /\ file_size' = IF sent THEN f.size ELSE 0
        /\ file_pos' = 0
        /\ UNCHANGED <<wrote, client_headers, mailbox, draft>>
        /\ UNCHANGED serverVars

\* Lines 233-250: one iteration of `while file_pos < file_size`, and the
\* return that follows the last one.
UploadChunk(r) ==
    LET len == ChunkLen(file, file_pos)
        put == Put(id, file_pos, file_pos + len - 1, file_size, len)
        failed == PutFailed(r)
        pos == file_pos + len
        last == ~(pos < file_size)
    IN  /\ pc = "running"
        /\ file_pos < file_size
        /\ Len(reqs) <= MaxPuts
        /\ reqs' = Append(reqs, put)
        /\ resps' = Append(resps, r)
        /\ file_pos' = IF failed THEN file_pos ELSE pos
        /\ pc' = IF failed \/ last THEN "returned" ELSE "running"
        /\ result' = IF failed \/ (last /\ JsonRaises(r))
                     THEN ErrorDict("Could not upload attachment")
                     ELSE IF last THEN Json(r) ELSE NoValue
        /\ UNCHANGED <<op, client, id, args, file, file_size, wrote,
                       client_headers, mailbox, draft>>
        /\ UNCHANGED serverVars

CallUpload ==
    /\ pc = "idle"
    /\ \E c \in BOOLEAN, rid \in Ids, f \in UploadFiles, r \in SessionResponses :
           \* the id is a path segment only: the files vary with the first one
           /\ (Varied /\ rid = FirstId(UploadOp)) \/ f \in Files
           /\ UploadBegin(c, rid, f, r)

StepUpload ==
    /\ pc = "running"
    /\ \E r \in PutResponses : UploadChunk(r)

(***************************************************************************)
(* server.py: the request handlers and the token context.                  *)
(***************************************************************************)
Connections == {"r1", "r2"}

\* The x-auth-token header of a request: absent, empty or a token.
HeaderValues == {"<none>", "", "t1", "t2"}

\* auth_token or ""
TokenOf(h) == IF h = "<none>" THEN "" ELSE h

InitServer ==
    /\ ctx = [r \in Connections |-> "<unset>"]
    /\ hpc = [r \in Connections |-> "new"]
    /\ hdr = [r \in Connections |-> "<none>"]
    /\ saved = [r \in Connections |-> "<unset>"]
    /\ seen = [r \in Connections |-> {}]
    /\ listed = {}

\* Mutant of SetToken: the token is kept in one place for all requests.
SetTokenGlobal(r, transport, h) ==
    /\ hpc[r] = "new"
    /\ hdr' = [hdr EXCEPT ![r] = h]
    /\ saved' = [saved EXCEPT ![r] = ctx[r]]
    /\ ctx' = [q \in Connections |-> TokenOf(h)]
    /\ hpc' = [hpc EXCEPT ![r] = transport]
    /\ UNCHANGED <<seen, listed>>
    /\ UNCHANGED facadeVars

\* token = auth_token_context.set(auth_token or "")
\* The variable is set in the context of the task that serves the request.
SetToken(r, transport, h) ==
    /\ hpc[r] = "new"
    /\ hdr' = [hdr EXCEPT ![r] = h]
    /\ saved' = [saved EXCEPT ![r] = ctx[r]]
    /\ ctx' = [ctx EXCEPT ![r] = TokenOf(h)]
    /\ hpc' = [hpc EXCEPT ![r] = transport]
    /\ UNCHANGED <<seen, listed>>
    /\ UNCHANGED facadeVars

handle_sse == \E r \in Connections, h \in HeaderValues : SetToken(r, "sse", h)

handle_streamable_http ==
    \E r \in Connections, h \in HeaderValues : SetToken(r, "http", h)

\* auth_token_context.get() in the task that serves request r: a context
\* variable, each task reading the value of its own context.
auth_token_context(r) == ctx[r]

\* A tool runs inside app.run / session_manager.handle_request and reads the
\* token of its context.
ToolInvocation ==
    \E r \in Connections :
        /\ hpc[r] \in {"sse", "http"}
        /\ seen' = [seen EXCEPT ![r] = seen[r] \cup {auth_token_context(r)}]
        /\ UNCHANGED <<ctx, hpc, hdr, saved, listed>>
        /\ UNCHANGED facadeVars

\* from tools import (...): the facade operations server.py imports.
ImportedOperations == Operations

\* The names of the types.Tool(...) entries list_tools returns, in the order
\* of the list.
AdvertisedTools ==
    {"outlookMail_add_attachment", "outlookMail_list_attachments",
     "outlookMail_get_attachment", "outlookMail_download_attachment",
     "outlookMail_delete_attachment", "outlookMail_upload_large_attachment",
     "outlookMail_delete_inference_override",
     "outlookMail_update_inference_override",
     "outlookMail_list_inference_overrides", "outlookMail_delete_folder",
     "outlookMail_create_mail_folder", "outlookMail_list_folders",
     "outlookMail_permanent_delete_folder", "outlookMail_copy_folder",
     "outlookMail_move_folder", "outlookMail_get_mail_folder",
     "outlookMail_update_folder_display_name",
     "outlookMail_create_child_folder",
     "outlookMail_create_mail_search_folder",
     "outlookMail_get_mail_search_folder",
     "outlookMail_update_mail_search_folder",
     "outlookMail_delete_mail_search_folder",
     "outlookMail_permanent_delete_mail_search_folder",
     "outlookMail_get_messages_from_folder", "outlookMail_list_inbox_rules",
     "outlookMail_get_inbox_rule_by_id", "outlookMail_create_message_rule",
     "outlookMail_update_message_rule", "outlookMail_delete_message_rule",
     "outlookMail_list_messages", "outlookMail_list_messages_from_folder",
     "outlookMail_create_draft_in_folder", "outlookMail_update_draft",
     "outlookMail_delete_draft", "outlookMail_copy_message",
     "outlookMail_create_forward_draft", "outlookMail_create_reply_draft",
     "outlookMail_create_reply_all_draft", "outlookMail_forward_message",
     "outlookMail_move_message", "outlookMail_send_reply_custom",
     "outlookMail_reply_all", "outlookMail_send_draft",
     "outlookMail_permanent_delete"}

\* @app.list_tools(): a client of a running session asks for the tools.
list_tools ==
    \E r \in Connections :
        /\ hpc[r] \in {"sse", "http"}
        /\ listed' = AdvertisedTools
        /\ UNCHANGED <<ctx, hpc, hdr, saved, seen>>
        /\ UNCHANGED facadeVars

\* Mutant of ResetToken: the reset follows the wrapped call instead of being
\* in a finally block, so it is skipped when the call raises.
ResetTokenUnlessRaised ==
    \E r \in Connections, end \in {"done", "raised"} :
        /\ hpc[r] \in {"sse", "http"}
        /\ ctx' = [ctx EXCEPT ![r] = IF end = "done" THEN saved[r] ELSE @]
        /\ hpc' = [hpc EXCEPT ![r] = end]
        /\ UNCHANGED <<hdr, saved, seen, listed>>
        /\ UNCHANGED facadeVars

\* try: await app.run(...) / await session_manager.handle_request(...)
\* finally: auth_token_context.reset(token)
\* The wrapped call ends normally ("done") or raises ("raised"); the finally
\* block runs either way.
ResetToken ==
    \E r \in Connections, end \in {"done", "raised"} :
        /\ hpc[r] \in {"sse", "http"}
        /\ ctx' = [ctx EXCEPT ![r] = saved[r]]
        /\ hpc' = [hpc EXCEPT ![r] = end]
        /\ UNCHANGED <<hdr, saved, seen, listed>>
        /\ UNCHANGED facadeVars

(***************************************************************************)
(* Specifications.                                                         *)
(***************************************************************************)
Init == InitFacade /\ InitServer

Next ==
    \/ CallPlain
    \/ CallId
    \/ CallArgs
    \/ CallIdArgs
    \/ CallFile
    \/ CallUpload
    \/ StepUpload
    \/ Return

Spec == Init /\ [][Next]_vars

NextServer ==
    \/ handle_sse
    \/ handle_streamable_http
    \/ ToolInvocation
    \/ list_tools
    \/ ResetToken

SpecServer == Init /\ [][NextServer]_vars

(***************************************************************************)
(* A draft and its updates: create_draft, then update_draft calls on the   *)
(* id the service gave the draft.                                          *)
(***************************************************************************)
DraftId == "d1"

\* The create_draft calls of the scenario: a subject, a body and at least
\* one recipient, no cc, bcc or reply_to, the default importance.
DraftCalls(c) ==
    {x \in ArgCalls("outlookMail_create_draft", c) :
        /\ x[2] \in BasicResponses
        /\ \A n \in {"subject", "body_content"} : x[1][n] = Str("s")
        /\ Len(x[1]["to_recipients"].v) > 0
        /\ \A n \in {"cc_recipients", "bcc_recipients", "reply_to"} : x[1][n] = None
        /\ x[1]["importance"] = Sig_create_draft.def["importance"]}

\* The service creates the draft when it answers the POST with success.
CreateDraft ==
    /\ pc = "idle"
    /\ draft = NoDraft
    /\ \E c \in BOOLEAN : \E x \in DraftCalls(c) :
           /\ Outcome("outlookMail_create_draft", c, "", x[1], NoFile, x[2])
           /\ draft' = IF c /\ ~x[2].exc /\ x[2].status \in {200, 202}
                        THEN [id |-> DraftId, args |-> x[1]] ELSE draft
           /\ UNCHANGED mailbox

UpdateDraft ==
    /\ pc = "idle"
    /\ draft /= NoDraft
    /\ \E c \in BOOLEAN : \E x \in ArgCalls("outlookMail_update_draft", c) :
           Complete("outlookMail_update_draft", c, draft.id, x[1], NoFile, x[2])

NextDraft ==
    \/ CreateDraft
    \/ UpdateDraft
    \/ Return

SpecDraft == Init /\ [][NextDraft]_vars

(***************************************************************************)
(* Properties.                                                             *)
(***************************************************************************)
IsErrorDict(v) == v.kind = "dict" /\ v.error

Is2xx(status) == status >= 200 /\ status < 300

Finished == pc \in {"returned", "raised"}

Uploading == op = UploadOp

\* The PUT requests of the invocation, by their place in the log.
PutIndexes == {i \in 1..Len(reqs) : reqs[i].verb = "PUT"}

\* C1: no exception escapes a facade operation: every call returns a value.
C1_NoExceptionEscapes == pc /= "raised"

\* C2: without a client every operation returns a dict with an "error" key
\* and does not raise.
C2_NoClientErrorDict ==
    (Finished /\ ~client) => (pc = "returned" /\ IsErrorDict(result))

\* C3: when the service answers a request with a non-2xx status, the
\* operation returns a dict with an "error" key, whatever the body.
C3_Non2xxErrorDict ==
    (Finished /\ \E i \in 1..Len(resps) : ~resps[i].exc /\ ~Is2xx(resps[i].status))
        => (pc = "returned" /\ IsErrorDict(result))

\* C4: copy_message never deletes: it issues no DELETE on the message, and a
\* message that exists before the call exists after it.
C4_CopyNeverDeletes ==
    [][(pc = "idle" /\ op' = "outlookMail_copy_message")
          => /\ id' \in mailbox => id' \in mailbox'
             /\ \A i \in 1..Len(reqs') :
                    ~(reqs'[i].verb = "DELETE"
                        /\ reqs'[i].path = "/me/messages/{message_id}")]_vars

\* ceil(s / c)
Ceil(s, c) == (s + c - 1) \div c

\* Every request of the upload was answered 2xx, the session request with
\* an uploadUrl, and the upload has returned.
UploadAllSucceeded ==
    /\ Uploading /\ pc = "returned"
    /\ Len(reqs) >= 1
    /\ resps[1].body = "session"
    /\ \A i \in 1..Len(resps) : ~resps[i].exc /\ Is2xx(resps[i].status)

\* C5: for a file of size S, every request succeeding, the upload issues
\* ceil(S / chunk_size) PUTs and the last one's range ends at S - 1.
C5_PutCount ==
    (UploadAllSucceeded /\ file.avail = file.size)
        => /\ Cardinality(PutIndexes) = Ceil(file.size, chunk_size)
           /\ PutIndexes /= {} => reqs[Len(reqs)].range.end = file.size - 1

C5_Witness ==
    /\ UploadAllSucceeded /\ file.avail = file.size
    /\ file.size = chunk_size + 1
    /\ Cardinality(PutIndexes) = 2
    /\ reqs[3].range.start = chunk_size /\ reqs[3].range.end = chunk_size

\* C6: the session POST is answered 2xx with an uploadUrl before any PUT,
\* every PUT but the last has been answered with success before the next is
\* sent, and the PUTs start at strictly increasing offsets.
C6_StrictOrder ==
    Uploading =>
        /\ Len(resps) = Len(reqs)
        /\ \A i \in PutIndexes :
              /\ i > 1
              /\ reqs[1].verb = "POST"
              /\ ~resps[1].exc /\ Is2xx(resps[1].status) /\ resps[1].body = "session"
        /\ \A i \in PutIndexes : \A j \in PutIndexes :
              i < j => /\ ~resps[i].exc /\ Is2xx(resps[i].status)
                       /\ reqs[i].range.start < reqs[j].range.start

C8_TokenIsolation ==
    \A r \in Connections : seen[r] \subseteq {TokenOf(hdr[r])}

C8_Witness ==
    /\ hpc["r1"] = "sse" /\ hpc["r2"] = "http"
    /\ hdr["r1"] = "t1" /\ hdr["r2"] = "t2"
    /\ seen["r1"] = {"t1"} /\ seen["r2"] = {"t2"}

\* The operations that build their payload from optional arguments.
OptionalFieldOps ==
    {"outlookMail_update_draft", "outlookMail_update_mail_search_folder",
     "outlookMail_create_message_rule", "outlookMail_update_message_rule",
     "outlookMail_create_draft", "outlookMail_create_draft_in_folder"}

\* The payload key an argument is sent under.
PayloadKey(n) ==
    CASE n = "body_content" -> "body"
      [] n = "to_recipients" -> "toRecipients"
      [] n = "cc_recipients" -> "ccRecipients"
      [] n = "bcc_recipients" -> "bccRecipients"
      [] n = "reply_to" -> "replyTo"
      [] n = "internet_message_id" -> "internetMessageId"
      [] n = "is_delivery_receipt_requested" -> "isDeliveryReceiptRequested"
      [] n = "is_read" -> "isRead"
      [] n = "is_read_receipt_requested" -> "isReadReceiptRequested"
      [] n = "inference_classification" -> "inferenceClassification"
      [] n = "from_sender" -> "from"
      [] OTHER -> n

\* The shape an argument's value is sent in.
PayloadValue(n, v) ==
    CASE n = "body_content" -> HtmlBody(v)
      [] n \in {"to_recipients", "cc_recipients", "bcc_recipients", "reply_to"}
            -> Recipients(v)
      [] OTHER -> v

\* An optional-field operation has sent its request.
SentPayload == op \in OptionalFieldOps /\ Len(reqs) = 1

\* The optional arguments of the operation: those with a default.
OptionalArgs == DOMAIN Sig(op).opt \cup DOMAIN Sig(op).def

\* C9: an optional argument that is None is no key of the payload, and no
\* value of the payload is null.
C9_NoneOmitted ==
    SentPayload =>
        /\ \A n \in OptionalArgs :
              args[n].t = "none" => PayloadKey(n) \notin DOMAIN reqs[1].json
        /\ \A k \in DOMAIN reqs[1].json : reqs[1].json[k].t /= "none"

C9_Witness ==
    /\ SentPayload /\ op = "outlookMail_update_draft"
    /\ args["subject"].t = "none" /\ args["flag"].t = "none"
    /\ DOMAIN reqs[1].json = {"isRead", "categories"}

\* C10: every optional argument that is supplied (not None), an empty list
\* included, is in the payload, verbatim or in its mapped shape.
C10_SuppliedSent ==
    SentPayload =>
        \A n \in OptionalArgs :
            args[n].t /= "none"
                => /\ PayloadKey(n) \in DOMAIN reqs[1].json
                   /\ reqs[1].json[PayloadKey(n)] = PayloadValue(n, args[n])

\* C11: create_draft with to_recipients ["a@x.com"] and categories ["X"]
\* sends toRecipients in the Graph shape and categories ["X"]; an
\* update_draft of that draft with categories [] sends categories: [].
C11_RoundTrip ==
    /\ (/\ op = "outlookMail_create_draft" /\ Len(reqs) = 1
         /\ args["to_recipients"] = List(<<"a@x.com">>)
         /\ args["categories"] = List(<<"X">>))
            => /\ {"toRecipients", "categories"} \subseteq DOMAIN reqs[1].json
               /\ reqs[1].json["toRecipients"] =
                      List(<<Dict([k \in {"emailAddress"} |->
                                Dict([j \in {"address"} |-> Str("a@x.com")])])>>)
               /\ reqs[1].json["categories"] = List(<<"X">>)
    /\ (/\ op = "outlookMail_update_draft" /\ Len(reqs) = 1
         /\ draft /= NoDraft /\ id = draft.id
         /\ draft.args["to_recipients"] = List(<<"a@x.com">>)
         /\ draft.args["categories"] = List(<<"X">>)
         /\ args["categories"] = List(<<>>))
            => /\ "categories" \in DOMAIN reqs[1].json
               /\ reqs[1].json["categories"] = List(<<>>)

C11_Witness ==
    /\ op = "outlookMail_update_draft" /\ pc = "returned" /\ Len(reqs) = 1
    /\ draft /= NoDraft /\ id = draft.id
    /\ draft.args["to_recipients"] = List(<<"a@x.com">>)
    /\ draft.args["categories"] = List(<<"X">>)
    /\ args["categories"] = List(<<>>)
    /\ reqs[1].json["categories"] = List(<<>>)

\* The operations that take lists of plain addresses.
RecipientOps ==
    {"outlookMail_create_draft", "outlookMail_create_draft_in_folder",
     "outlookMail_update_draft", "outlookMail_create_forward_draft",
     "outlookMail_forward_message"}

RecipientArgs == {"to_recipients", "cc_recipients", "bcc_recipients", "reply_to"}

\* {"emailAddress": {"address": email}}
EmailAddress(email) ==
    Dict([k \in {"emailAddress"} |-> Dict([j \in {"address"} |-> Str(email)])])

\* C12: a non-empty list L of addresses given as a recipient argument is sent
\* as a list of the same length whose i-th element is
\* {"emailAddress": {"address": L[i]}}: order and duplicates are kept.
C12_RecipientMapping ==
    (op \in RecipientOps /\ Len(reqs) = 1) =>
        \A n \in RecipientArgs \cap DOMAIN args :
            (args[n].t = "list" /\ Len(args[n].v) > 0) =>
                /\ PayloadKey(n) \in DOMAIN reqs[1].json
                /\ reqs[1].json[PayloadKey(n)].t = "list"
                /\ Len(reqs[1].json[PayloadKey(n)].v) = Len(args[n].v)
                /\ \A i \in 1..Len(args[n].v) :
                       reqs[1].json[PayloadKey(n)].v[i] = EmailAddress(args[n].v[i])

C12_Witness ==
    /\ op = "outlookMail_forward_message" /\ pc = "returned" /\ Len(reqs) = 1
    /\ args["to_recipients"] = List(<<"b@x.com", "a@x.com", "b@x.com">>)
    /\ Len(reqs[1].json["toRecipients"].v) = 3
    /\ reqs[1].json["toRecipients"].v[3] = EmailAddress("b@x.com")

DeleteOps ==
    {"outlookMail_delete_attachment", "outlookMail_delete_draft",
     "outlookMail_delete_folder", "outlookMail_delete_inference_override",
     "outlookMail_delete_message_rule", "outlookMail_delete_mail_search_folder"}

\* What each delete operation returns for a deletion done.
SuccessIndicator(o) ==
    CASE o = "outlookMail_delete_attachment" -> PlainStr("Deleted")
      [] o = "outlookMail_delete_draft" -> PlainDict("Success: Deleted")
      [] o = "outlookMail_delete_folder" -> PlainDict("message: deleted successfully")
      [] o = "outlookMail_delete_inference_override" -> PlainStr("Deleted")
      [] o = "outlookMail_delete_message_rule" -> PlainDict("status: Deleted")
      [] o = "outlookMail_delete_mail_search_folder" -> PlainDict("success: True")

C14_UploadReturnsJson ==
    (/\ UploadAllSucceeded /\ file.avail = file.size
     /\ PutIndexes /= {} => ~JsonRaises(resps[Len(resps)]))
        => /\ result.kind = "dict" /\ ~result.error
           /\ PutIndexes /= {} => result = Json(resps[Len(resps)])

UpdateOps == {"outlookMail_update_draft", "outlookMail_update_message_rule"}

\* C16: an update_draft or update_message_rule call with at least one
\* updatable field present sends a payload with at least one key.
C16_PayloadNotEmpty ==
    (/\ op \in UpdateOps /\ Len(reqs) = 1
     /\ \E n \in DOMAIN args : args[n].t /= "none")
        => DOMAIN reqs[1].json /= {}

\* C17: update_draft with body_content "" sends
\* body = {"contentType": "HTML", "content": ""}.
C17_EmptyBodySent ==
    (/\ op = "outlookMail_update_draft" /\ Len(reqs) = 1
     /\ args["body_content"] = Str(""))
        => /\ "body" \in DOMAIN reqs[1].json
           /\ reqs[1].json["body"] = HtmlBody(Str(""))

RuleOps == {"outlookMail_create_message_rule", "outlookMail_update_message_rule"}

\* C18: the payload of create_message_rule and update_message_rule has the
\* supplied (non-None) arguments as its keys, no other, each with the value
\* given: {} is sent as {}, False as false.
C18_RulePayloadExact ==
    (op \in RuleOps /\ Len(reqs) = 1) =>
        /\ DOMAIN reqs[1].json = {n \in DOMAIN args : args[n].t /= "none"}
        /\ \A k \in DOMAIN reqs[1].json : reqs[1].json[k] = args[k]

C18_Witness ==
    /\ op = "outlookMail_update_message_rule" /\ pc = "returned" /\ Len(reqs) = 1
    /\ args["conditions"] = Dict(<<>>) /\ args["isEnabled"] = Bool(FALSE)
    /\ DOMAIN reqs[1].json = {"conditions", "isEnabled"}
    /\ reqs[1].json["conditions"] = Dict(<<>>)
    /\ reqs[1].json["isEnabled"] = Bool(FALSE)

\* C19: the ranges of the PUTs partition the file: the first starts at 0,
\* each later one at the end of the one before plus 1, every range has
\* start <= end and Content-Length = end - start + 1 <= chunk_size, every
\* range but the last has chunk_size bytes, every total is S, and on success
\* the last range ends at S - 1.
C19_RangesPartition ==
    Uploading =>
        /\ \A i \in PutIndexes :
              /\ reqs[i].range.total = file_size
              /\ reqs[i].range.start <= reqs[i].range.end
              /\ reqs[i].range.len = reqs[i].range.end - reqs[i].range.start + 1
              /\ reqs[i].range.len <= chunk_size
              /\ i = 2 => reqs[i].range.start = 0
              /\ i > 2 => reqs[i].range.start = reqs[i - 1].range.end + 1
              /\ i < Len(reqs) => reqs[i].range.len = chunk_size
        /\ (pc = "returned" /\ ~IsErrorDict(result) /\ PutIndexes /= {})
              => reqs[Len(reqs)].range.end = file_size - 1

\* C20: with as many bytes to read as measured, or fewer, every PUT carries
\* at least one byte, the offset grows with every PUT and there are at most
\* ceil(S / chunk_size) PUTs.
C20_UploadBounded ==
    (Uploading /\ file.avail <= file.size) =>
        /\ \A i \in PutIndexes :
              /\ reqs[i].range.len >= 1
              /\ i > 2 => reqs[i].range.start > reqs[i - 1].range.start
        /\ Cardinality(PutIndexes) <= Ceil(file_size, chunk_size)

\* Calls of every single-request operation: the operation, the client, the
\* id, the arguments (the required ones) and the answer of the service.
ProbeCalls ==
    {<<o, c, "", NoArgs, NoFile, r>> :
        o \in PlainOps, c \in BOOLEAN, r \in Responses}
    \cup UNION {{<<o, c, rid, NoArgs, NoFile, r>> :
                    c \in BOOLEAN, rid \in IdsOf(o), r \in Responses} : o \in IdOps}
    \cup {<<o, c, "", BaseArgs(Sig(o)), NoFile, r>> :
            o \in ArgOps, c \in BOOLEAN, r \in Responses}
    \cup UNION {{<<o, c, rid, BaseArgs(Sig(o)), NoFile, r>> :
                    c \in BOOLEAN, rid \in IdsOf(o), r \in Responses} : o \in IdArgOps}
    \cup {<<o, c, rid, NoArgs, f, r>> :
            o \in FileOps, c \in BOOLEAN, rid \in Ids, f \in Files, r \in Responses}

\* The answer the call just made got, if it sent a request.
Answer == IF resps = <<>> THEN TransportError ELSE resps[1]

FailedAnswer(r) == r.exc \/ RaisesForStatus(r)

\* C21: every operation other than outlookMail_upload_large_attachment
\* issues at most one HTTP request per invocation, whatever the answer: a
\* request that failed is not sent again.
C21_AtMostOneRequest ==
    (op /= "" /\ ~Uploading) =>
        /\ Len(reqs) <= 1
        /\ Len(resps) = Len(reqs)

C21_Witness ==
    /\ op = "outlookMail_forward_message" /\ pc = "returned" /\ client
    /\ Len(resps) = 1 /\ FailedAnswer(resps[1])
    /\ Len(reqs) = 1 /\ reqs[1].verb = "POST"

SendOps ==
    {"outlookMail_forward_message", "outlookMail_send_reply_custom",
     "outlookMail_send_draft", "outlookMail_permanent_delete"}

\* The status codes a send-class operation takes for success.
AcceptedStatuses(o) ==
    IF o \in {"outlookMail_forward_message", "outlookMail_send_reply_custom"}
    THEN {200, 202}
    ELSE {200, 202, 204}

\* What each send-class operation returns for a request accepted.
SendIndicator(o) ==
    CASE o = "outlookMail_forward_message" -> PlainDict("success: True")
      [] o = "outlookMail_send_reply_custom" -> PlainStr("Sent")
      [] o = "outlookMail_send_draft" -> PlainDict("success: Draft sent successfully")
      [] o = "outlookMail_permanent_delete" ->
             PlainDict("success: Message permanently deleted")

\* C22: a send-class operation that got a response returns its success
\* indicator exactly when the status is in its accepted set (forward_message
\* and send_reply_custom: 200, 202; send_draft and permanent_delete: 200, 202,
\* 204), whatever the body, which is then not decoded; for any other status
\* it returns the decoded body, or an error dict when the body cannot be
\* decoded.
C22_SendStatus ==
    (/\ op \in SendOps /\ Finished /\ Len(resps) = 1 /\ ~resps[1].exc) =>
        /\ pc = "returned"
        /\ (resps[1].status \in AcceptedStatuses(op)) <=> (result = SendIndicator(op))
        /\ resps[1].status \notin AcceptedStatuses(op) =>
               IF JsonRaises(resps[1]) THEN IsErrorDict(result)
               ELSE result = Json(resps[1])

C22_Witness ==
    /\ op = "outlookMail_send_reply_custom" /\ pc = "returned"
    /\ resps = <<Response(204, "undecodable")>>
    /\ IsErrorDict(result)

\* An accepted status with a body that is not JSON: the indicator is returned.
C22_WitnessAccepted ==
    /\ op = "outlookMail_send_draft" /\ pc = "returned"
    /\ resps = <<Response(204, "undecodable")>>
    /\ result = SendIndicator(op)

\* The query parameters a call of outlookMail_list_messages_from_folder
\* sent: its one request is a GET on the folder's messages.
ListFromFolderSent ==
    /\ op = "outlookMail_list_messages_from_folder" /\ Finished /\ client
    /\ pc = "returned"
    /\ Len(reqs) = 1 /\ reqs[1].verb = "GET"
    /\ reqs[1].path = "/me/mailFolders/{folder_id}/messages"

\* C23: the definition of outlookMail_list_messages_from_folder bound by
\* the tools package is the one that accepts filter_query, orderby and
\* select: a call with them does not fail for an unexpected argument, and
\* each non-empty one is forwarded, verbatim, as $filter, $orderby, $select;
\* None and the empty string are left out of the query.
C23_BoundDefinition ==
    (op = "outlookMail_list_messages_from_folder" /\ Finished) =>
        /\ pc = "returned"
        /\ client => ListFromFolderSent
        /\ client =>
              \A k \in DOMAIN QueryFields :
                  IF Truthy(args[QueryFields[k]])
                  THEN /\ k \in DOMAIN reqs[1].params
                       /\ reqs[1].params[k] = args[QueryFields[k]]
                  ELSE k \notin DOMAIN reqs[1].params

C23_Witness ==
    /\ ListFromFolderSent
    /\ args["filter_query"] = Str("s") /\ args["select"] = Str("s")
    /\ args["orderby"] = None
    /\ DOMAIN reqs[1].params = {"$top", "$filter", "$select"}
    /\ reqs[1].params["$filter"] = Str("s")

\* C23 as stated: a call with those arguments never drops them, whatever
\* their value.
C23_NeverDropped ==
    ListFromFolderSent =>
        \A k \in DOMAIN QueryFields :
            args[QueryFields[k]].t /= "none"
                => /\ k \in DOMAIN reqs[1].params
                   /\ reqs[1].params[k] = args[QueryFields[k]]

\* C24: the tool names list_tools advertises are the facade operations the
\* server imports from the tools package, no more and no fewer.
C24_AdvertisedEqualsImported ==
    listed /= {} => listed = ImportedOperations

\* The handler finished: the wrapped call returned or raised.
HandlerFinished(r) == hpc[r] \in {"done", "raised"}

\* C25: when handle_sse or handle_streamable_http finishes, normally or
\* because the wrapped call raised, auth_token_context holds the value it
\* held before the handler started: no token outlives its request.
C25_TokenBalanced ==
    \A r \in Connections :
        HandlerFinished(r) =>
            /\ auth_token_context(r) = "<unset>"
            /\ auth_token_context(r) /= TokenOf(hdr[r])

C25_Witness ==
    /\ hpc["r1"] = "raised" /\ hdr["r1"] = "t1" /\ seen["r1"] = {"t1"}
    /\ hpc["r2"] = "http" /\ auth_token_context("r2") = "t2"
    /\ auth_token_context("r1") = "<unset>"

\* What an operation returns when get_onedrive_client() gave no client.
NoClientResults == {NoClientError, PlainStr("Could not get Outlook client")}

\* C26: without a client no operation issues a request and none reads or
\* writes a local file: the call returns the no-client value whether the
\* file it names exists or not, its size is not taken and nothing is
\* written.
C26_NoClientNoEffect ==
    (op /= "" /\ ~client) =>
        /\ pc = "returned"
        /\ result \in NoClientResults
        /\ reqs = <<>> /\ resps = <<>>
        /\ ~wrote
        /\ file_size = 0 /\ file_pos = 0

C26_Witness ==
    /\ op = "outlookMail_add_attachment" /\ ~client /\ pc = "returned"
    /\ ~file.exists
    /\ result = NoClientError /\ reqs = <<>>

\* The same for the chunked upload and a file that is there.
C26_WitnessUpload ==
    /\ op = UploadOp /\ ~client /\ pc = "returned"
    /\ file.exists /\ file.size > 0
    /\ file_size = 0 /\ reqs = <<>>

\* C27: every PUT of outlookMail_upload_large_attachment goes to the upload
\* URL with exactly the headers Content-Length and Content-Range; the
\* Authorization header is carried by requests to the Graph base URL only.
C27_PutHeaders ==
    \A i \in 1..Len(reqs) :
        /\ reqs[i].verb = "PUT" =>
              /\ Uploading
              /\ reqs[i].path = "uploadUrl"
              /\ reqs[i].headers = {"Content-Length", "Content-Range"}
        /\ "Authorization" \in reqs[i].headers => reqs[i].path /= "uploadUrl"

C27_Witness ==
    /\ Uploading /\ client /\ Len(reqs) = 3
    /\ reqs[1].verb = "POST" /\ "Authorization" \in reqs[1].headers
    /\ reqs[2].verb = "PUT" /\ reqs[3].verb = "PUT"
    /\ "Authorization" \notin reqs[3].headers

\* C28: outlookMail_download_attachment writes save_path only after the GET
\* returned a 2xx status: when the request fails or the status is not 2xx
\* the file is neither created nor modified.
C28_WriteOnlyAfter2xx ==
    (op = "outlookMail_download_attachment" /\ Finished) =>
        (wrote => /\ Len(resps) = 1
                  /\ ~resps[1].exc
                  /\ Is2xx(resps[1].status))

\* C29: outlookMail_get_folder_delta leaves client['headers'] as it found
\* it: the Prefer header goes with its own request only, and no request of
\* another operation, before or after, carries it.
C29_PreferNotKept ==
    /\ "Prefer" \notin client_headers
    /\ \A i \in 1..Len(reqs) :
           "Prefer" \in reqs[i].headers
               => op = "outlookMail_get_folder_delta"

C29_Witness ==
    /\ op = "outlookMail_get_folder_delta" /\ pc = "returned" /\ client
    /\ Len(reqs) = 1
    /\ reqs[1].headers = {"Authorization", "Prefer"}
    /\ client_headers = {"Authorization"}

====
